---- MODULE Spec2Model ----
(***************************************************************************)
(* Model of the spot/futures carry pipeline of spot_futures_arbitrage:     *)
(*   backtest.py  simple_backtest, run_backtest                            *)
(*   strategy.py  carry, evaluate_trade, calculate_carry,                  *)
(*                generate_signals, carry_strategy                         *)
(* A DataFrame is a sequence of records (rows in index order).  A float    *)
(* is an exact rational <<numerator, denominator>> in lowest terms with a  *)
(* positive denominator; NaN / None / NaT is the value Null.               *)
(***************************************************************************)
EXTENDS Integers, Sequences, FiniteSets, TLC

VARIABLES
    pc,        \* which function of the package has returned ("build": none yet)
    df,        \* the frame the caller hands to simple_backtest / run_backtest
    result,    \* what that call returned
    args,      \* the arguments of a call of evaluate_trade
    threshold, \* the threshold handed to generate_signals / carry_strategy
    historical_prices, \* the rows of the historical_prices table
    columns    \* df.columns, the column names of the frame df

vars == <<pc, df, result, args, threshold, historical_prices, columns>>

\* ------------------------------------------------------------------ bounds
\* Longest frame handed to simple_backtest.
MaxRows == 3
\* Longest frame handed to run_backtest.
MaxRunRows == 3
\* Longest frame handed to simple_backtest with columns missing.
MaxPartialRows == 2
\* Largest days_to_expiry handed to evaluate_trade.
MaxDays == 2
\* Longest metric column, largest metric and largest threshold (in units of
\* 0.05) handed to generate_signals.
MaxMetricRows == 3
MaxMetric == 2
MaxThreshold == 2
\* Most rows of the historical_prices table, the last day and ticks per day
\* of model time, and the latest expiration day.
MaxObservations == 3
MaxDay == 2
TicksPerDay == 2
MaxExpiry == 1
MaxSummaryRows == 3
MaxHalfDays == 3

\* ------------------------------------------------------------- null, floats
\* NaN, None and NaT: a float that is no rational.
Null == <<>>

Abs(x) == IF x < 0 THEN -x ELSE x

RECURSIVE GCD(_, _)
GCD(a, b) == IF b = 0 THEN a ELSE GCD(b, a % b)

\* The rational n/d (d # 0) in lowest terms with a positive denominator.
Rat(n, d) ==
    LET g == GCD(Abs(n), Abs(d))
        s == IF d < 0 THEN -1 ELSE 1
    IN  <<(s * n) \div g, (s * d) \div g>>

Zero == Rat(0, 1)
One == Rat(1, 1)
RAdd(a, b) == Rat(a[1] * b[2] + b[1] * a[2], a[2] * b[2])
RSub(a, b) == Rat(a[1] * b[2] - b[1] * a[2], a[2] * b[2])
RMul(a, b) == Rat(a[1] * b[1], a[2] * b[2])
RDiv(a, b) == Rat(a[1] * b[2], a[2] * b[1])
RNeg(a) == <<-a[1], a[2]>>
RGt(a, b) == a[1] * b[2] > b[1] * a[2]
RLt(a, b) == a[1] * b[2] < b[1] * a[2]

\* ---------------------------------------------------------- frame helpers
Column(frame, col) == [i \in 1..Len(frame) |-> frame[i][col]]

\* row inserted into a frame already ordered by datetime, after every row
\* whose datetime is not later (rows with equal datetimes keep their order).
RECURSIVE InsertByDatetime(_, _)
InsertByDatetime(row, sorted) ==
    IF sorted = <<>> THEN <<row>>
    ELSE IF Head(sorted).datetime <= row.datetime
         THEN <<Head(sorted)>> \o InsertByDatetime(row, Tail(sorted))
         ELSE <<row>> \o sorted

\* A plausible slip: the frame is used in caller order, never sorted.
SortValuesOmitted(frame) == frame

\* df.sort_values('datetime')
RECURSIVE SortValues(_)
SortValues(frame) ==
    IF frame = <<>> THEN <<>>
    ELSE InsertByDatetime(frame[Len(frame)], SortValues(SubSeq(frame, 1, Len(frame) - 1)))

\* ------------------------------------------------------- simple_backtest
\* Series.ffill(): each missing price takes the last price seen before it.
RECURSIVE FFill(_)
FFill(prices) ==
    IF Len(prices) <= 1 THEN prices
    ELSE LET front == FFill(SubSeq(prices, 1, Len(prices) - 1))
             last == prices[Len(prices)]
         IN  Append(front, IF last = Null THEN front[Len(front)] ELSE last)

\* A plausible slip: the price ratio, without the - 1.
PctChangeFirstOne(prices, pad) ==
    LET p == IF pad THEN FFill(prices) ELSE prices
    IN  [t \in 1..Len(p) |->
            IF t = 1 \/ p[t] = Null \/ p[t - 1] = Null THEN Zero
            ELSE RDiv(p[t], p[t - 1])]

\* df[price_col].pct_change().fillna(0).  pct_change is price[t]/price[t-1] - 1,
\* NaN on the first row and wherever either price is missing; fillna(0) turns
\* every NaN into 0.  pad is pandas' fill_method: older versions forward-fill
\* missing prices before dividing (TRUE), newer ones do not (FALSE).
PctChange(prices, pad) ==
    LET p == IF pad THEN FFill(prices) ELSE prices
    IN  [t \in 1..Len(p) |->
            IF t = 1 \/ p[t] = Null \/ p[t - 1] = Null THEN Zero
            ELSE RSub(RDiv(p[t], p[t - 1]), One)]

\* A plausible slip: the position is overwritten by the signal.
NextPositionAssign(current_pos, signal) == signal

\* A plausible slip: the signal is always added.
NextPositionAlwaysAdd(current_pos, signal) == current_pos + signal

\* One pass of the loop body: if current_pos != signal: current_pos += signal
NextPosition(current_pos, signal) ==
    IF current_pos # signal THEN current_pos + signal ELSE current_pos

\* The loop over df[signal_col], from current_pos = 0: the list `position`.
RECURSIVE PositionList(_)
PositionList(signals) ==
    IF signals = <<>> THEN <<>>
    ELSE LET front == PositionList(SubSeq(signals, 1, Len(signals) - 1))
             current_pos == IF front = <<>> THEN 0 ELSE front[Len(front)]
         IN  Append(front, NextPosition(current_pos, signals[Len(signals)]))

\* A plausible slip: the position is not shifted, so a step earns on the
\* position it has just set.
HeldPositionUnshifted(position, t) == position[t]

\* df['position'].shift().fillna(0) at row t: the position of the row before,
\* 0 on the first row.
HeldPosition(position, t) == IF t = 1 THEN 0 ELSE position[t - 1]

\* df['pnl'] = df['position'].shift().fillna(0) * df['price_change']
Pnl(position, price_change) ==
    [t \in 1..Len(position) |->
        RMul(Rat(HeldPosition(position, t), 1), price_change[t])]

\* A plausible slip: a running sum of pnl in place of the compounded product.
RECURSIVE CumProdAsSum(_)
CumProdAsSum(pnl) ==
    IF pnl = <<>> THEN <<>>
    ELSE LET front == CumProdAsSum(SubSeq(pnl, 1, Len(pnl) - 1))
             prev == IF front = <<>> THEN One ELSE front[Len(front)]
         IN  Append(front, RAdd(prev, RAdd(One, pnl[Len(pnl)])))

\* (1 + df['pnl']).cumprod()
RECURSIVE CumProd(_)
CumProd(pnl) ==
    IF pnl = <<>> THEN <<>>
    ELSE LET front == CumProd(SubSeq(pnl, 1, Len(pnl) - 1))
             prev == IF front = <<>> THEN One ELSE front[Len(front)]
         IN  Append(front, RMul(prev, RAdd(One, pnl[Len(pnl)])))

\* simple_backtest(df) with the default column names, the three required
\* columns present: the input rows in datetime order, each with the columns
\* price_change, position, pnl and cumulative_pnl added.
SimpleBacktest(frame, pad) ==
    LET sorted == SortValues(frame)
        price_change == PctChange(Column(sorted, "close"), pad)
        position == PositionList(Column(sorted, "signal"))
        pnl == Pnl(position, price_change)
        cum == CumProd(pnl)
    IN  [t \in 1..Len(sorted) |->
            [price_change |-> price_change[t], position |-> position[t],
             pnl |-> pnl[t], cumulative_pnl |-> RSub(cum[t], One)] @@ sorted[t]]

\* ---------------------------------------------------------- run_backtest
Symbols == {"A", "B"}

\* The keys of df.groupby(['symbol']) in the order groupby yields them.
GroupKeys == <<"A", "B">>

InGroup(frame, key) == SelectSeq(frame, LAMBDA r : r.symbol = key)

\* df.dropna(subset=[price_col])
DropNaPrice(frame) == SelectSeq(frame, LAMBDA r : r.close # Null)

\* A plausible slip: the backtest function applied to the whole frame, the
\* result then split by group.
RunBacktestUngrouped(frame, pad) ==
    SimpleBacktest(SortValues(DropNaPrice(frame)), pad)

RECURSIVE ApplyGroups(_, _, _)
ApplyGroups(frame, keys, pad) ==
    IF keys = <<>> THEN <<>>
    ELSE SimpleBacktest(InGroup(frame, Head(keys)), pad)
         \o ApplyGroups(frame, Tail(keys), pad)

\* run_backtest(df, simple_backtest, groupby=['symbol']): rows without a price
\* are dropped, an empty frame is returned as it is, otherwise the frame is
\* sorted by datetime and simple_backtest is applied to each group, the
\* groups' results concatenated in key order.
RunBacktest(frame, pad) ==
    LET kept == DropNaPrice(frame)
    IN  IF kept = <<>> THEN kept
        ELSE ApplyGroups(SortValues(kept), GroupKeys, pad)

\* ------------------------------------------------- the caller of backtest.py
Float(n) == Rat(n, 1)
\* The prices of the model's frames and tables: two positive floats, so that
\* a price can rise, fall or stay (a missing price is Null).
Prices == {Float(1), Float(2)}
Signals == {-1, 0, 1}

\* The caller puts one more row into the frame for simple_backtest; the rows
\* of one instrument series have distinct datetimes, in any order.
AddRow ==
    /\ pc = "build"
    /\ Len(df) < MaxRows
    /\ \E datetime \in 1..MaxRows, close \in Prices \cup {Null}, signal \in Signals :
          /\ \A i \in 1..Len(df) : df[i].datetime # datetime
          /\ df' = Append(df, [datetime |-> datetime, close |-> close, signal |-> signal])
    /\ UNCHANGED <<pc, result, args, threshold, historical_prices, columns>>

\* The columns simple_backtest reads, with the default price_col and
\* signal_col.
RequiredColumns == {"datetime", "close", "signal"}

\* A plausible slip: the three assert statements left out.
AssertColumnsOmitted(cols) == TRUE

\* assert 'datetime' in df.columns; assert price_col in df.columns;
\* assert signal_col in df.columns: TRUE when all three pass.
AssertColumns(cols) ==
    /\ "datetime" \in cols
    /\ "close" \in cols
    /\ "signal" \in cols

\* simple_backtest(df): an AssertionError when an assert fails, before any
\* row is computed; past the asserts, a lookup of a column the frame lacks
\* (df.sort_values('datetime'), df[price_col], df[signal_col]) raises KeyError.
simple_backtest ==
    /\ pc = "build"
    /\ IF ~AssertColumns(columns)
       THEN pc' = "AssertionError" /\ result' = <<>>
       ELSE IF ~(RequiredColumns \subseteq columns)
       THEN pc' = "KeyError" /\ result' = <<>>
       ELSE /\ \E pad \in BOOLEAN : result' = SimpleBacktest(df, pad)
            /\ pc' = "simple_backtest"
    /\ UNCHANGED <<df, args, threshold, historical_prices, columns>>

\* The variables of the other entry points, which a backtest leaves alone.
NoTrade == args = <<>>
NoStrategy == threshold = Zero /\ historical_prices = {}

InitBacktest ==
    /\ pc = "build" /\ df = <<>> /\ result = <<>> /\ NoTrade /\ NoStrategy
    /\ columns = RequiredColumns

\* A row of a frame that has only the columns cols.
PartialRow(cols, datetime, close, signal) ==
    [c \in cols |-> IF c = "datetime" THEN datetime
                    ELSE IF c = "close" THEN close ELSE signal]

\* The caller puts one more row into a frame that may lack some of the
\* columns simple_backtest reads.
AddPartialRow ==
    /\ pc = "build"
    /\ Len(df) < MaxPartialRows
    /\ \E datetime \in 1..MaxPartialRows, close \in Prices \cup {Null}, signal \in Signals :
          /\ "datetime" \in columns => \A i \in 1..Len(df) : df[i].datetime # datetime
          /\ df' = Append(df, PartialRow(columns, datetime, close, signal))
    /\ UNCHANGED <<pc, result, args, threshold, historical_prices, columns>>

\* The caller's frame has any subset of the three columns.
InitColumns ==
    /\ pc = "build" /\ df = <<>> /\ result = <<>> /\ NoTrade /\ NoStrategy
    /\ columns \in SUBSET RequiredColumns
NextColumns == AddPartialRow \/ simple_backtest
SpecColumns == InitColumns /\ [][NextColumns]_vars
NextBacktest == AddRow \/ simple_backtest
SpecBacktest == InitBacktest /\ [][NextBacktest]_vars

\* The caller puts one more row into the frame for run_backtest: the rows of
\* several instruments, each (symbol, datetime) at most once, in any order.
AddGroupRow ==
    /\ pc = "build"
    /\ Len(df) < MaxRunRows
    /\ \E datetime \in 1..MaxRunRows, symbol \in Symbols,
          close \in Prices \cup {Null}, signal \in Signals :
          /\ \A i \in 1..Len(df) : ~(df[i].datetime = datetime /\ df[i].symbol = symbol)
          /\ df' = Append(df, [datetime |-> datetime, symbol |-> symbol,
                               close |-> close, signal |-> signal])
    /\ UNCHANGED <<pc, result, args, threshold, historical_prices, columns>>

run_backtest ==
    /\ pc = "build"
    /\ \E pad \in BOOLEAN : result' = RunBacktest(df, pad)
    /\ pc' = "run_backtest"
    /\ UNCHANGED <<df, args, threshold, historical_prices, columns>>

InitRun ==
    /\ pc = "build" /\ df = <<>> /\ result = <<>> /\ NoTrade /\ NoStrategy
    /\ columns = RequiredColumns \cup {"symbol"}
NextRun == AddGroupRow \/ run_backtest
SpecRun == InitRun /\ [][NextRun]_vars

\* ------------------------------------------------- carry, evaluate_trade
\* FUNDING_RATES, per funding interval.
FundingSymbols == {"BTC/USDT:USDT", "ETH/USDT:USDT"}
FUNDING_RATES(symbol) ==
    IF symbol = "BTC/USDT:USDT" THEN Rat(5, 10000) ELSE Rat(-3, 10000)

FUNDING_INTERVALS_PER_YEAR == 3 * 365

\* Float arithmetic: a NaN operand gives NaN.
NSub(a, b) == IF a = Null \/ b = Null THEN Null ELSE RSub(a, b)
NDiv(a, b) == IF a = Null \/ b = Null THEN Null ELSE RDiv(a, b)
NMul(a, b) == IF a = Null \/ b = Null THEN Null ELSE RMul(a, b)
NAdd(a, b) == IF a = Null \/ b = Null THEN Null ELSE RAdd(a, b)

\* carry(fut_price, spot_price, funding_rate, days_to_expiry, perpetual).
\* A missing days_to_expiry (None, or NaN out of a frame) fails the first
\* test: NaN > 0 is false.
Carry(fut_price, spot_price, funding_rate, days_to_expiry, perpetual) ==
    IF days_to_expiry # Null /\ RGt(days_to_expiry, Zero)
    THEN LET raw_carry == NDiv(NSub(fut_price, spot_price), spot_price)
         IN  NMul(raw_carry, RDiv(Float(365), days_to_expiry))
    ELSE IF perpetual
    THEN LET funding_annualized == RMul(funding_rate, Float(FUNDING_INTERVALS_PER_YEAR))
             raw_carry == NDiv(NSub(fut_price, spot_price), spot_price)
         IN  NAdd(raw_carry, funding_annualized)
    ELSE Zero

\* A plausible slip: days_to_expiry handed on for a perpetual too, so that
\* carry takes its dated branch.
EvaluateTradePassesExpiry(symbol, spot_price, fut_price, days_to_expiry) ==
    IF symbol \in FundingSymbols
    THEN Carry(fut_price, spot_price, FUNDING_RATES(symbol), days_to_expiry, TRUE)
    ELSE Carry(fut_price, spot_price, Null, days_to_expiry, FALSE)

\* evaluate_trade(symbol, spot_price, fut_price, days_to_expiry)
EvaluateTrade(symbol, spot_price, fut_price, days_to_expiry) ==
    IF symbol \in FundingSymbols
    THEN Carry(fut_price, spot_price, FUNDING_RATES(symbol), Null, TRUE)
    ELSE Carry(fut_price, spot_price, Null, days_to_expiry, FALSE)

\* ------------------------------------------- the caller of evaluate_trade
DatedSymbol == "BTC/USDT:USDT-260327"
TradeSymbols == FundingSymbols \cup {DatedSymbol}
DaysToExpiry == {Null} \cup {Float(d) : d \in -1..MaxDays}

evaluate_trade ==
    /\ pc = "build"
    /\ args # <<>>
    /\ result' = EvaluateTrade(args.symbol, args.spot_price, args.fut_price,
                               args.days_to_expiry)
    /\ pc' = "evaluate_trade"
    /\ UNCHANGED <<df, args, threshold, historical_prices, columns>>

\* The caller's arguments: any symbol, two prices (the spot price possibly
\* missing) and any days_to_expiry, missing, negative, zero or positive.
InitTrade ==
    /\ pc = "build" /\ df = <<>> /\ result = <<>> /\ NoStrategy
    /\ columns = {}
    /\ args \in [symbol : TradeSymbols, spot_price : Prices \cup {Null},
                 fut_price : Prices, days_to_expiry : DaysToExpiry]
NextTrade == evaluate_trade
SpecTrade == InitTrade /\ [][NextTrade]_vars

\* ------------------------------------------------------ generate_signals
\* A plausible slip: the comparisons include the threshold itself.
ThresholdSignalInclusive(x, thr) ==
    IF x # Null /\ ~RLt(x, thr) THEN 1
    ELSE IF x # Null /\ ~RGt(x, RNeg(thr)) THEN -1
    ELSE 0

\* lambda x: 1 if x > threshold else (-1 if x < -threshold else 0); every
\* comparison with NaN is false.
ThresholdSignal(x, thr) ==
    IF x # Null /\ RGt(x, thr) THEN 1
    ELSE IF x # Null /\ RLt(x, RNeg(thr)) THEN -1
    ELSE 0

\* df['signal'] = df[signal_col].apply(...) on the frame f returned; with the
\* default signal_col the metric column itself is overwritten.
GenerateSignals(frame, signal_col, thr) ==
    [i \in 1..Len(frame) |->
        [frame[i] EXCEPT !.signal = ThresholdSignal(frame[i][signal_col], thr)]]

\* --------------------------------------------- the caller of generate_signals
\* Metrics and thresholds are multiples of 0.05.
Metrics == {Null} \cup {Rat(k, 20) : k \in -MaxMetric..MaxMetric}
Thresholds == {Rat(k, 20) : k \in -1..MaxThreshold}

\* The strategy function f handed to generate_signals returns df: one more
\* row of its metric column 'signal'.
AddMetricRow ==
    /\ pc = "build"
    /\ Len(df) < MaxMetricRows
    /\ \E x \in Metrics : df' = Append(df, [signal |-> x])
    /\ UNCHANGED <<pc, result, args, threshold, historical_prices, columns>>

generate_signals ==
    /\ pc = "build"
    /\ \E thr \in Thresholds :
          /\ threshold' = thr
          /\ result' = GenerateSignals(df, "signal", thr)
    /\ pc' = "generate_signals"
    /\ UNCHANGED <<df, args, historical_prices, columns>>

InitSignals ==
    /\ pc = "build" /\ df = <<>> /\ result = <<>> /\ NoTrade /\ NoStrategy
    /\ columns = {"signal"}
NextSignals == AddMetricRow \/ generate_signals
SpecSignals == InitSignals /\ [][NextSignals]_vars

\* ------------------------------------------------------- resample_prices
\* Model time is a tick count; the timeframe is one day of TicksPerDay ticks,
\* so a resampling bucket is a calendar day.
Day(datetime) == datetime \div TicksPerDay
BucketStart(day) == day * TicksPerDay

Min(S) == CHOOSE x \in S : \A y \in S : x <= y
Max(S) == CHOOSE x \in S : \A y \in S : y <= x

\* .last() of one column over a bucket's observations: the value of the
\* latest observation that has one, NaN when none has.
Last(obs, col) ==
    LET valid == {r \in obs : r[col] # Null}
    IN  IF valid = {} THEN Null
        ELSE (CHOOSE r \in valid : \A q \in valid : q.datetime <= r.datetime)[col]

\* A plausible slip: the buckets without an observation are dropped.
BarsOfObservedOnly(table, symbol) ==
    LET recs == {r \in table : r.symbol = symbol}
        days == {Day(r.datetime) : r \in recs}
        bars == IF recs = {} THEN <<>>
                ELSE [k \in 1..(Max(days) - Min(days) + 1) |->
                        LET day == Min(days) + k - 1
                            obs == {r \in recs : Day(r.datetime) = day}
                        IN  [symbol |-> symbol, datetime |-> BucketStart(day),
                             futures |-> Last(obs, "futures"),
                             close |-> Last(obs, "close"),
                             expiration_date |-> Last(obs, "expiration_date")]]
    IN  SelectSeq(bars, LAMBDA b : Day(b.datetime) \in days)

\* groupby('symbol').resample(freq).last() for one symbol: one row for every
\* bucket from the symbol's first observation to its last, a bucket without
\* an observation included (its columns are NaN).
BarsOf(table, symbol) ==
    LET recs == {r \in table : r.symbol = symbol}
        days == {Day(r.datetime) : r \in recs}
    IN  IF recs = {} THEN <<>>
        ELSE [k \in 1..(Max(days) - Min(days) + 1) |->
                LET day == Min(days) + k - 1
                    obs == {r \in recs : Day(r.datetime) = day}
                IN  [symbol |-> symbol, datetime |-> BucketStart(day),
                     futures |-> Last(obs, "futures"), close |-> Last(obs, "close"),
                     expiration_date |-> Last(obs, "expiration_date")]]

SpotSymbol == "BTC/USDT"
PerpSymbol == "BTC/USDT:USDT"
OtherSymbol == "ETH/USDT:USDT"

\* The symbols of the table in the order groupby sorts its keys.
SymbolOrder == <<SpotSymbol, PerpSymbol, DatedSymbol, OtherSymbol>>

RECURSIVE ResampleGroups(_, _)
ResampleGroups(table, symbols) ==
    IF symbols = <<>> THEN <<>>
    ELSE BarsOf(table, Head(symbols)) \o ResampleGroups(table, Tail(symbols))

\* resample_prices(df, freq)
ResamplePrices(table) ==
    IF table = {} THEN <<>> ELSE ResampleGroups(table, SymbolOrder)

\* symbol_filter(df, 'BTC', 'USDT'): the symbols that start with "BTC/USDT".
SymbolFilter(frame) ==
    IF frame = <<>> THEN frame
    ELSE SelectSeq(frame, LAMBDA r : r.symbol \in {SpotSymbol, PerpSymbol, DatedSymbol})

\* ------------------------------------------------------- calculate_carry
\* futs.merge(spot[['datetime', 'close']], on='datetime', how='left'): every
\* futures row once per spot row of its datetime, once with a NaN close_spot
\* when there is none.
RECURSIVE MergeLeft(_, _)
MergeLeft(futures_rows, spot) ==
    IF futures_rows = <<>> THEN <<>>
    ELSE LET row == Head(futures_rows)
             matches == SelectSeq(spot, LAMBDA r : r.datetime = row.datetime)
             joined == IF matches = <<>> THEN <<[close_spot |-> Null] @@ row>>
                       ELSE [k \in 1..Len(matches) |->
                               [close_spot |-> matches[k].close] @@ row]
         IN  joined \o MergeLeft(Tail(futures_rows), spot)

\* (expiration_date.dt.date - datetime.dt.date).days, None without a date.
DaysTo(expiration_date, datetime) ==
    IF expiration_date = Null THEN Null
    ELSE Float(expiration_date[1] - Day(datetime))

\* calculate_carry('BTC', 'USDT', timeframe): the futures bars, each with the
\* spot close of its datetime, its days_to_expiry, and its carry, which is
\* also its signal column.
CalculateCarry(table) ==
    LET filtered_df == SymbolFilter(ResamplePrices(table))
        spot == SelectSeq(filtered_df, LAMBDA r : r.futures = Float(0))
        merged == MergeLeft(SelectSeq(filtered_df, LAMBDA r : r.futures = Float(1)), spot)
    IN  [i \in 1..Len(merged) |->
            LET row == merged[i]
                days_to_expiry == DaysTo(row.expiration_date, row.datetime)
                carry == EvaluateTrade(row.symbol, row.close_spot, row.close,
                                       days_to_expiry)
            IN  [days_to_expiry |-> days_to_expiry, carry |-> carry,
                 signal |-> carry] @@ row]

\* -------------------------------------------------------- carry_strategy
\* A plausible slip: the futures leg keeps the sign of the carry signal.
FuturesLegSignalSameSign(signal) == signal

\* df[signal_col] = df[signal_col] * -1
FuturesLegSignal(signal) == signal * (-1)

\* df['symbol'].str[:7]; every symbol that passes symbol_filter starts with
\* "BTC/USDT".
SymbolSpot(symbol) == "BTC/USD"

\* carry_strategy('BTC', 'USDT', timeframe, threshold=thr), default signal
\* column: the spot legs followed by the futures legs (pd.concat), a column
\* one leg lacks filled with NaN.
CarryStrategy(table, thr) ==
    LET frame == GenerateSignals(CalculateCarry(table), "signal", thr)
        spot == [i \in 1..Len(frame) |->
                    [datetime |-> frame[i].datetime,
                     symbol |-> SymbolSpot(frame[i].symbol),
                     close |-> frame[i].close_spot,
                     signal |-> frame[i].signal,
                     fut_pair |-> frame[i].symbol,
                     carry |-> Null, days_to_expiry |-> Null,
                     expiration_date |-> Null]]
        futures_rows ==
                [i \in 1..Len(frame) |->
                    [datetime |-> frame[i].datetime,
                     symbol |-> frame[i].symbol,
                     close |-> frame[i].close,
                     carry |-> frame[i].carry,
                     signal |-> FuturesLegSignal(frame[i].signal),
                     days_to_expiry |-> frame[i].days_to_expiry,
                     expiration_date |-> frame[i].expiration_date,
                     fut_pair |-> frame[i].symbol]]
    IN  spot \o futures_rows

\* -------------------------------------------- the table and the strategy calls
Ticks == 0..((MaxDay + 1) * TicksPerDay - 1)
Expirations == {Null} \cup {Float(d) : d \in 1..MaxExpiry}

\* What the scraper stores: a spot symbol with futures = 0 and no expiration
\* date, a contract with futures = 1 and its expiry, if it has one.
Observations(symbol) ==
    [datetime : Ticks, symbol : {symbol},
     futures : {IF symbol = SpotSymbol THEN Float(0) ELSE Float(1)},
     close : Prices \cup {Null},
     expiration_date : IF symbol = DatedSymbol THEN Expirations ELSE {Null}]

\* One more observation is stored, each (symbol, datetime) at most once.
AddObservation ==
    /\ pc = "build"
    /\ Cardinality(historical_prices) < MaxObservations
    /\ \E symbol \in {SpotSymbol, PerpSymbol, DatedSymbol, OtherSymbol} :
          \E r \in Observations(symbol) :
             /\ \A q \in historical_prices :
                   ~(q.symbol = r.symbol /\ q.datetime = r.datetime)
             /\ historical_prices' = historical_prices \cup {r}
    /\ UNCHANGED <<pc, df, result, args, threshold, columns>>

\* Some futures bar of the base/quote pair exists (the calls below are
\* modelled for tables that hold one).
HasFuturesBar ==
    \E r \in historical_prices : r.symbol \in {PerpSymbol, DatedSymbol}

calculate_carry ==
    /\ pc = "build"
    /\ HasFuturesBar
    /\ result' = CalculateCarry(historical_prices)
    /\ pc' = "calculate_carry"
    /\ UNCHANGED <<df, args, threshold, historical_prices, columns>>

carry_strategy ==
    /\ pc = "build"
    /\ HasFuturesBar
    /\ \E thr \in {x \in Thresholds : ~RLt(x, Zero)} :
          /\ threshold' = thr
          /\ result' = CarryStrategy(historical_prices, thr)
    /\ pc' = "carry_strategy"
    /\ UNCHANGED <<df, args, historical_prices, columns>>

resample_prices ==
    /\ pc = "build"
    /\ result' = ResamplePrices(historical_prices)
    /\ pc' = "resample_prices"
    /\ UNCHANGED <<df, args, threshold, historical_prices, columns>>

InitStrategy ==
    /\ pc = "build" /\ df = <<>> /\ result = <<>> /\ NoTrade
    /\ threshold = Zero /\ historical_prices = {}
    /\ columns = {}
NextStrategy == AddObservation \/ calculate_carry \/ carry_strategy
SpecStrategy == InitStrategy /\ [][NextStrategy]_vars

NextResample == AddObservation \/ resample_prices
SpecResample == InitStrategy /\ [][NextResample]_vars

\* ------------------------------------------------- summarize_portfolio
\* Timestamps are seconds since the first one; (end - start).dt.seconds is the
\* seconds component of the timedelta, its whole days left out.
TimedeltaSeconds(delta) == delta % (24 * 3600)

\* num_seconds / 365 * 24 * 3600, evaluated from left to right.
NumYears(num_seconds) ==
    RMul(RMul(RDiv(Float(num_seconds), Float(365)), Float(24)), Float(3600))

\* Series.max()
RECURSIVE SeriesMax(_)
SeriesMax(series) ==
    IF series = <<>> THEN Null
    ELSE LET rest == SeriesMax(Tail(series))
         IN  IF rest = Null \/ RGt(Head(series), rest) THEN Head(series) ELSE rest

\* One row per group: start, end, total_return and max_single_period_drawdown
\* as the code computes them; num_years is the local the code raises
\* 1 + total_return to the power 1 / of. The columns volatility,
\* annualized_return and annualized_volatility (a standard deviation, a real
\* power, a square root) are left out of the row.
RECURSIVE SummarizeGroups(_, _)
SummarizeGroups(frame, keys) ==
    IF keys = <<>> THEN <<>>
    ELSE LET group == InGroup(frame, Head(keys))
             times == {group[i].datetime : i \in 1..Len(group)}
             rest == SummarizeGroups(frame, Tail(keys))
         IN  IF group = <<>> THEN rest
             ELSE <<[symbol |-> Head(keys),
                     start |-> Min(times),
                     end |-> Max(times),
                     total_return |-> group[Len(group)].cumulative_pnl,
                     num_years |-> NumYears(TimedeltaSeconds(Max(times) - Min(times))),
                     max_single_period_drawdown |-> SeriesMax(Column(frame, "pnl"))]>>
                  \o rest

SummarizePortfolio(frame) == SummarizeGroups(frame, GroupKeys)

\* The timestamps of the model's backtest rows: half days apart.
SummaryTimes == {k * (12 * 3600) : k \in 0..MaxHalfDays}
Returns == {Zero, One}

\* The caller puts one more backtest row into the frame for
\* summarize_portfolio.
AddSummaryRow ==
    /\ pc = "build"
    /\ Len(df) < MaxSummaryRows
    /\ \E datetime \in SummaryTimes, symbol \in Symbols,
          pnl \in Returns, cumulative_pnl \in Returns :
          df' = Append(df, [datetime |-> datetime, symbol |-> symbol,
                            pnl |-> pnl, cumulative_pnl |-> cumulative_pnl])
    /\ UNCHANGED <<pc, result, args, threshold, historical_prices, columns>>

summarize_portfolio ==
    /\ pc = "build"
    /\ result' = SummarizePortfolio(df)
    /\ pc' = "summarize_portfolio"
    /\ UNCHANGED <<df, args, threshold, historical_prices, columns>>

InitSummary ==
    /\ pc = "build" /\ df = <<>> /\ result = <<>> /\ NoTrade /\ NoStrategy
    /\ columns = {"datetime", "symbol", "pnl", "cumulative_pnl"}
NextSummary == AddSummaryRow \/ summarize_portfolio
SpecSummary == InitSummary /\ [][NextSummary]_vars

\* ================================================================ claims
Returned == pc = "simple_backtest"

\* The frames of tests/test_backtest.py (one row a day).
TestBasic ==
    <<[datetime |-> 1, close |-> Float(100), signal |-> 0],
      [datetime |-> 2, close |-> Float(102), signal |-> 1],
      [datetime |-> 3, close |-> Float(101), signal |-> 1],
      [datetime |-> 4, close |-> Float(103), signal |-> -1]>>

TestLongShort ==
    <<[datetime |-> 1, close |-> Float(100), signal |-> 0],
      [datetime |-> 2, close |-> Float(105), signal |-> 1],
      [datetime |-> 3, close |-> Float(103), signal |-> -1],
      [datetime |-> 4, close |-> Float(108), signal |-> 1],
      [datetime |-> 5, close |-> Float(107), signal |-> 0]>>

\* The rows simple_backtest returned are the caller's rows in datetime order.
DatetimeOrdered ==
    /\ Len(result) = Len(df)
    /\ \A t \in 2..Len(result) : result[t - 1].datetime < result[t].datetime
    /\ \A i \in 1..Len(df) : \E t \in 1..Len(result) :
          /\ result[t].datetime = df[i].datetime
          /\ result[t].signal = df[i].signal
          /\ result[t].close = df[i].close

\* The position of the row before row t, 0 before the first row.
Prior(t) == IF t = 1 THEN 0 ELSE result[t - 1].position

\* C1: the positions simple_backtest returns are a fold over the signals in
\* datetime order from position 0: with prior position p and signal s the
\* next position is p when p = s and p + s otherwise; the signals 0,1,1,-1
\* give the positions 0,1,1,0 and 0,1,-1,1,0 give 0,1,0,1,1 (the two test
\* frames, evaluated once, in the states with an empty caller frame).
C1_PositionFold ==
    /\ Returned =>
          /\ DatetimeOrdered
          /\ \A t \in 1..Len(result) :
                result[t].position =
                    IF Prior(t) = result[t].signal THEN Prior(t)
                    ELSE Prior(t) + result[t].signal
    /\ df = <<>> =>
          \A pad \in BOOLEAN :
              /\ Column(SimpleBacktest(TestBasic, pad), "position") = <<0, 1, 1, 0>>
              /\ Column(SimpleBacktest(TestLongShort, pad), "position") = <<0, 1, 0, 1, 1>>

\* A frame given out of datetime order whose signal meets an opposite prior
\* position (so p + s differs from s).
C1_Witness ==
    /\ Returned
    /\ \E i \in 2..Len(df) : df[i].datetime < df[i - 1].datetime
    /\ \E t \in 2..Len(result) :
          /\ result[t - 1].position = 1
          /\ result[t].signal = -1
          /\ result[t].position = 0

\* C2: with every signal in {-1,0,1}, every position simple_backtest returns
\* is in {-1,0,1}.
C2_PositionBounded ==
    Returned => \A t \in 1..Len(result) : result[t].position \in {-1, 0, 1}

\* Three rows whose positions reach both extremes.
C2_Witness ==
    /\ Returned
    /\ Len(result) = MaxRows
    /\ \E t \in 1..Len(result) : result[t].position = 1
    /\ \E t \in 1..Len(result) : result[t].position = -1

\* C3: a signal equal to the signal of the row before never changes the
\* position: signal[t] = signal[t-1] implies position[t] = position[t-1].
C3_RepeatedSignalKeepsPosition ==
    Returned =>
        \A t \in 2..Len(result) :
            result[t].signal = result[t - 1].signal
                => result[t].position = result[t - 1].position

\* C4: pnl[t] is the position of row t-1 (0 for the first row) times
\* price_change[t], the fractional change of the price from row t-1 to row
\* t; the first row has price_change 0 and pnl 0.
C4_PnlUsesPriorPosition ==
    Returned =>
        \A t \in 1..Len(result) :
            /\ result[t].pnl = RMul(Float(Prior(t)), result[t].price_change)
            /\ t = 1 => result[t].price_change = Zero /\ result[t].pnl = Zero
            /\ (t > 1 /\ result[t].close # Null /\ result[t - 1].close # Null) =>
                  result[t].price_change =
                      RDiv(RSub(result[t].close, result[t - 1].close), result[t - 1].close)

\* A position is opened on a row whose price moved: that row earns nothing,
\* and the next row earns on it.
C4_Witness ==
    /\ Returned
    /\ \E t \in 2..Len(result) :
          /\ Prior(t) = 0
          /\ result[t].position # 0
          /\ result[t].price_change # Zero
          /\ result[t].pnl = Zero
          /\ t < Len(result)
          /\ result[t + 1].pnl # Zero

AllFlat == \A i \in 1..Len(df) : df[i].signal = 0

Outcome(frame) ==
    [t \in 1..Len(frame) |->
        [datetime |-> frame[t].datetime, position |-> frame[t].position,
         pnl |-> frame[t].pnl, cumulative_pnl |-> frame[t].cumulative_pnl]]

\* C10 as stated: for every group, the position, pnl and cumulative_pnl rows
\* run_backtest returns are those of simple_backtest run on the group's rows
\* of the input alone.
C10_GroupEqualsAloneAllRows ==
    pc = "run_backtest" =>
        \A key \in Symbols : \E pad \in BOOLEAN :
            Outcome(InGroup(result, key)) = Outcome(SimpleBacktest(InGroup(df, key), pad))

\* C10, amended: for every group, the position, pnl and cumulative_pnl rows
\* run_backtest returns are those of simple_backtest run alone on the group's
\* rows that have a price, whatever the rows of the other groups.
C10_GroupEqualsAlonePricedRows ==
    pc = "run_backtest" =>
        \A key \in Symbols : \A pad \in BOOLEAN :
            Outcome(InGroup(result, key)) =
                Outcome(SimpleBacktest(DropNaPrice(InGroup(df, key)), pad))

\* One group's rows lie in time on both sides of a row of the other group,
\* which holds a position, and the first group earns a non-zero pnl.
C10_Witness ==
    /\ pc = "run_backtest"
    /\ \E i, j, k \in 1..Len(result) :
          /\ result[i].symbol = "A" /\ result[k].symbol = "A" /\ result[j].symbol = "B"
          /\ result[i].datetime < result[j].datetime
          /\ result[j].datetime < result[k].datetime
          /\ result[j].position # 0
          /\ result[i].position # 0
          /\ result[k].pnl # Zero

\* C8: evaluate_trade values a symbol of the funding-rate mapping with the
\* perpetual formula and its configured rate, whatever days_to_expiry is; any
\* other symbol with the dated formula when days_to_expiry > 0, and as exactly
\* 0 when days_to_expiry is missing or <= 0.
C8_ModeBySymbol ==
    pc = "evaluate_trade" =>
        LET f == args.fut_price
            s == args.spot_price
            d == args.days_to_expiry
            rate == IF args.symbol = "BTC/USDT:USDT" THEN Rat(5, 10000)
                    ELSE Rat(-3, 10000)
        IN  IF args.symbol \in {"BTC/USDT:USDT", "ETH/USDT:USDT"}
            THEN IF s = Null THEN result = Null
                 ELSE result = RAdd(RDiv(RSub(f, s), s), RMul(rate, Float(1095)))
            ELSE IF d # Null /\ d[1] > 0
            THEN IF s = Null THEN result = Null
                 ELSE result = RDiv(RMul(RSub(f, s), Float(365)), RMul(s, d))
            ELSE result = Zero

\* A perpetual valued while the caller passed a positive days_to_expiry.
C8_Witness ==
    /\ pc = "evaluate_trade"
    /\ args.symbol = "ETH/USDT:USDT"
    /\ args.days_to_expiry = Float(1)
    /\ args.spot_price = Float(1) /\ args.fut_price = Float(2)
    /\ result = Rat(6715, 10000)

\* C6: for a non-negative threshold, generate_signals gives each metric the
\* signal 1 iff metric > threshold, -1 iff metric < -threshold and 0
\* otherwise (a metric equal to threshold or -threshold included); the signal
\* is always in {-1,0,1}.
C6_ThresholdedSignal ==
    pc = "generate_signals" =>
        /\ Len(result) = Len(df)
        /\ \A i \in 1..Len(df) :
              LET x == df[i].signal
                  above == x # Null /\ x[1] * threshold[2] > threshold[1] * x[2]
                  below == x # Null /\ x[1] * threshold[2] < -threshold[1] * x[2]
              IN  /\ result[i].signal \in {-1, 0, 1}
                  /\ threshold[1] >= 0 =>
                        /\ result[i].signal = 1 <=> above
                        /\ result[i].signal = -1 <=> below
                        /\ result[i].signal = 0 <=> ~above /\ ~below

\* At threshold 0.05: a metric above it, one equal to -0.05, one equal to 0.05.
C6_Witness ==
    /\ pc = "generate_signals"
    /\ threshold = Rat(1, 20)
    /\ Column(df, "signal") = <<Rat(2, 20), Rat(-1, 20), Rat(1, 20)>>
    /\ Column(result, "signal") = <<1, 0, 0>>

\* C7: carry_strategy returns, for every carry record, one spot-leg row and
\* one futures-leg row of the same datetime and futures pair; the spot leg's
\* signal is the thresholded carry, the futures leg's signal is its negation,
\* and the two sum to 0.
C7_OppositeLegs ==
    pc = "carry_strategy" =>
        LET n == Len(CalculateCarry(historical_prices))
        IN  /\ Len(result) = 2 * n
            /\ \A i \in 1..n :
                  LET spot == result[i]
                      fut == result[n + i]
                      x == fut.carry
                      carry_signal ==
                          IF x # Null /\ x[1] * threshold[2] > threshold[1] * x[2] THEN 1
                          ELSE IF x # Null /\ x[1] * threshold[2] < -threshold[1] * x[2]
                               THEN -1
                          ELSE 0
                  IN  /\ spot.datetime = fut.datetime
                      /\ spot.fut_pair = fut.symbol /\ fut.fut_pair = fut.symbol
                      /\ spot.carry = Null /\ spot.symbol = "BTC/USD"
                      /\ spot.signal = carry_signal
                      /\ fut.signal = -carry_signal
                      /\ spot.signal + fut.signal = 0

\* Two carry records, one with a carry above the threshold (spot leg long,
\* futures leg short) and one with a carry below its negation.
C7_Witness ==
    /\ pc = "carry_strategy"
    /\ Len(result) = 4
    /\ \E i, j \in 1..2 :
          /\ result[i].signal = 1 /\ result[2 + i].signal = -1
          /\ result[j].signal = -1 /\ result[2 + j].signal = 1

\* The bars calculate_carry splits into spot and futures bars.
Bars == SymbolFilter(ResamplePrices(historical_prices))

NoSpotBar(datetime) ==
    \A k \in 1..Len(Bars) :
        ~(Bars[k].futures = Float(0) /\ Bars[k].datetime = datetime)

\* C9: every futures bar with no spot bar at its datetime yields a record
\* whose close_spot is null and whose carry is null (never 0), whichever carry
\* mode the bar falls into.
C9_UnmatchedCarryIsNull ==
    pc = "calculate_carry" =>
        /\ \A k \in 1..Len(Bars) :
              (Bars[k].futures = Float(1) /\ NoSpotBar(Bars[k].datetime)) =>
                  \E i \in 1..Len(result) :
                      /\ result[i].symbol = Bars[k].symbol
                      /\ result[i].datetime = Bars[k].datetime
        /\ \A i \in 1..Len(result) :
              NoSpotBar(result[i].datetime) =>
                  /\ result[i].close_spot = Null
                  /\ result[i].carry = Null

\* C14: a flat signal never changes the position: on a row whose signal is 0
\* the position is that of the row before, so the next row still earns that
\* position times its price change; and a position only moves towards 0 on
\* a signal of the opposite sign.
C14_FlatHoldsPosition ==
    Returned =>
        \A t \in 1..Len(result) :
            /\ result[t].signal = 0 =>
                  /\ result[t].position = Prior(t)
                  /\ t < Len(result) =>
                        result[t + 1].pnl =
                            RMul(Float(Prior(t)), result[t + 1].price_change)
            /\ Abs(result[t].position) < Abs(Prior(t)) =>
                  result[t].signal = -Prior(t)

\* A position is open when a 0 signal arrives, is kept, and earns on the
\* price move of the row after.
C14_Witness ==
    /\ Returned
    /\ \E t \in 2..Len(result) :
          /\ result[t].signal = 0
          /\ Prior(t) # 0
          /\ result[t].position = Prior(t)
          /\ t < Len(result)
          /\ result[t + 1].pnl # Zero

\* C15: after two consecutive rows with the same signal s in {-1,1} the
\* position equals s, and it equals s on every later row of that run of s.
C15_ConvergesInTwoSteps ==
    Returned =>
        \A t \in 2..Len(result) :
            (result[t].signal # 0 /\ result[t].signal = result[t - 1].signal) =>
                result[t].position = result[t].signal

\* From the opposite position -1, two rows of signal 1 are needed: 0, then 1.
C15_Witness ==
    /\ Returned
    /\ Len(result) = 3
    /\ Column(result, "signal") = <<-1, 1, 1>>
    /\ Column(result, "position") = <<-1, 0, 1>>

\* C11: when the frame lacks 'datetime', the price column or the signal
\* column, simple_backtest ends in an AssertionError and returns no row.
C11_MissingColumnAsserts ==
    pc \in {"simple_backtest", "AssertionError", "KeyError"} =>
        ((\E c \in {"datetime", "close", "signal"} : c \notin columns) =>
            /\ pc = "AssertionError"
            /\ Len(result) = 0)

\* The frame of the test, with rows: 'datetime' and 'close' but no 'signal'.
C11_Witness ==
    /\ pc = "AssertionError"
    /\ columns = {"datetime", "close"}
    /\ Len(df) = MaxPartialRows

\* The buckets (days) in which a symbol has an observation.
ObservedDays(symbol) ==
    {r.datetime \div TicksPerDay : r \in {q \in historical_prices : q.symbol = symbol}}

\* The rows resample_prices returned for a symbol and a bucket.
RowsAt(symbol, day) ==
    {i \in 1..Len(result) :
        result[i].symbol = symbol /\ result[i].datetime = day * TicksPerDay}

OnBucketStarts ==
    \A i \in 1..Len(result) : \E day \in 0..MaxDay : i \in RowsAt(result[i].symbol, day)

\* C12 as stated: resample_prices returns exactly one row for every (symbol,
\* bucket) in which the symbol has an observation and no row for any other
\* bucket, the empty buckets between its first and last observation included.
C12_RowIffObserved ==
    pc = "resample_prices" =>
        /\ OnBucketStarts
        /\ \A k \in 1..Len(SymbolOrder), day \in 0..MaxDay :
              Cardinality(RowsAt(SymbolOrder[k], day)) =
                  IF day \in ObservedDays(SymbolOrder[k]) THEN 1 ELSE 0

\* C12, amended: resample_prices returns exactly one row for every (symbol,
\* bucket) from the symbol's first observed bucket to its last and no row
\* outside that range; the row of a bucket without an observation holds only
\* nulls (nothing is filled forward), the row of a bucket with observations
\* holds the close of the latest one that has a close.
C12_RowPerBucketInRange ==
    pc = "resample_prices" =>
        /\ OnBucketStarts
        /\ \A k \in 1..Len(SymbolOrder), day \in 0..MaxDay :
              LET symbol == SymbolOrder[k]
                  observed == ObservedDays(symbol)
                  in_range == \E a, b \in observed : a <= day /\ day <= b
                  obs == {r \in historical_prices :
                            /\ r.symbol = symbol
                            /\ r.datetime \div TicksPerDay = day
                            /\ r.close # Null}
              IN  /\ Cardinality(RowsAt(symbol, day)) = IF in_range THEN 1 ELSE 0
                  /\ \A i \in RowsAt(symbol, day) :
                        IF obs = {}
                        THEN /\ result[i].close = Null
                             /\ day \notin observed =>
                                   /\ result[i].futures = Null
                                   /\ result[i].expiration_date = Null
                        ELSE \E r \in obs :
                                /\ \A q \in obs : q.datetime <= r.datetime
                                /\ result[i].close = r.close

\* A symbol observed in the first and the last bucket but not in the one
\* between, which gets a row of nulls; and a bucket holding two observations.
C12_Witness ==
    /\ pc = "resample_prices"
    /\ \E k \in 1..Len(SymbolOrder) :
          /\ ObservedDays(SymbolOrder[k]) = {0, 2}
          /\ \E i \in RowsAt(SymbolOrder[k], 1) : result[i].close = Null
          /\ \E i \in RowsAt(SymbolOrder[k], 0) : result[i].close # Null
          /\ Cardinality({r \in historical_prices : r.symbol = SymbolOrder[k]}) = 3

\* C13: in summarize_portfolio the years that annualized_return divides 1 by
\* are, for every group, the time elapsed between the group's first and last
\* timestamp in years (elapsed seconds / (365 * 24 * 3600)), whatever the span.
C13_YearsIsElapsedYears ==
    pc = "summarize_portfolio" =>
        \A i \in 1..Len(result) :
            LET times == {df[j].datetime :
                            j \in {k \in 1..Len(df) : df[k].symbol = result[i].symbol}}
            IN  result[i].num_years = Rat(Max(times) - Min(times), 365 * 24 * 3600)

====
